---------------------------- MODULE Spec2Model ----------------------------
(***************************************************************************)
(* A model of perform_ga (autotst/conformer/ga.py): the genetic algorithm  *)
(* that breeds dihedral-angle vectors, scores them with the calculator of  *)
(* an ASE object, and stops on a generation cap or an energy-spread        *)
(* cutoff.                                                                 *)
(*                                                                         *)
(* A DataFrame is a sequence of rows, a row is <<energy, angle_0, ...>>    *)
(* (column 0 is "Energy", column i+1 is "Torsion i").  Python indices are  *)
(* kept 0-based; Iloc converts.  Floats are modelled exactly: angles and   *)
(* energies are integers, top_percent and tolerance are rationals <<n,d>>, *)
(* random.random() and mutation_probability are hundredths.                *)
(***************************************************************************)
EXTENDS Integers, Sequences, FiniteSets, TLC

\* ------------------------------------------------------------- bounds ----
\* the max_generations argument ranges over 0..MaxGenerations
MaxGenerations == 2

\* ------------------------------------------------------------- inputs ----
\* <<population size, number of torsions>> of a call
Shapes == {<<2, 2>>, <<3, 1>>}
\* the delta argument (degrees); 0 and negative values are invalid
Deltas == {-360, 0, 360}
\* the top_percent argument, as <<numerator, denominator>>
TopPercents == {<<1, 3>>, <<2, 3>>}
\* the tolerance argument, as <<numerator, denominator>>
Tolerances == {<<1, 1000>>, <<3, 4>>}
\* the mutation_probability argument, in hundredths
MutationProbabilities == {50, 100}
\* the values random.random() returns, in hundredths (always < 1.0)
RandomDraws == {0, 25, 50, 75}
\* the energies get_potential_energy may return
Energies == {0, 1}
\* the largest of them
MaxEnergy == CHOOSE e \in Energies : \A f \in Energies : f <= e

VARIABLES
    \* arguments of the call
    df, top_percent, tolerance, max_generations, store_generations,
    mutation_probability, delta, torsions,
    \* locals of perform_ga
    possible_dihedrals, top, top_population, population_size,
    gen_number, complete, results, individual,
    parent_0, parent_1, dihedrals, index,
    \* control: the statement about to run, and the exception raised (if any)
    pc, error,
    \* environment: the dihedrals currently set on ase_object, the last
    \* generation file written and the generation numbers written so far
    structure, stored, stored_gens,
    \* the number of get_potential_energy calls made
    calls

vars == <<df, top_percent, tolerance, max_generations, store_generations,
          mutation_probability, delta, torsions,
          possible_dihedrals, top, top_population, population_size,
          gen_number, complete, results, individual,
          parent_0, parent_1, dihedrals, index, pc, error,
          structure, stored, stored_gens, calls>>

args == <<top_percent, tolerance, max_generations, store_generations,
          mutation_probability, delta, torsions>>

\* ------------------------------------------------------------ helpers ----
\* a value for a local that has not been assigned yet
None == 0 - 1

\* df.iloc[r, c] with 0-based r and c
Iloc(d, r, c) == d[r + 1][c + 1]

\* the "Energy" column of a row
Energy(row) == row[1]

\* Insert as sort_values(ascending=False) would have it
RECURSIVE InsertDescending(_, _)
InsertDescending(row, s) ==
    IF s = <<>> THEN <<row>>
    ELSE IF Energy(row) > Energy(Head(s)) THEN <<row>> \o s
    ELSE <<Head(s)>> \o InsertDescending(row, Tail(s))

\* insert a row in an ascending sequence, after the rows of equal energy
RECURSIVE Insert(_, _)
Insert(row, s) ==
    IF s = <<>> THEN <<row>>
    ELSE IF Energy(row) < Energy(Head(s)) THEN <<row>> \o s
    ELSE <<Head(s)>> \o Insert(row, Tail(s))

\* df.sort_values("Energy"): ascending; numpy sorts frames of at most 16
\* rows by insertion, which keeps rows of equal energy in their order
RECURSIVE SortValues(_)
SortValues(d) ==
    IF d = <<>> THEN <<>>
    ELSE Insert(d[Len(d)], SortValues(SubSeq(d, 1, Len(d) - 1)))

\* df.iloc[:n, :]
HeadRows(d, n) == SubSeq(d, 1, IF n < Len(d) THEN n ELSE Len(d))

\* the grid with its end point, as np.linspace(0, 360, ...) would give it
ArangeInclusive(step) ==
    IF step > 0
    THEN [k \in 1..((360 \div step) + 1) |-> (k - 1) * step]
    ELSE <<>>

\* np.arange(0, 360, step) for an integer step # 0: empty when step < 0
Arange(step) ==
    IF step > 0
    THEN [k \in 1..((360 + step - 1) \div step) |-> (k - 1) * step]
    ELSE <<>>

\* select_top_population(df, top_percent): the first
\* ceil(top_percent * population size) rows of the population sorted by energy
select_top_population(d, tp) ==
    HeadRows(SortValues(d), (tp[1] * Len(d) + tp[2] - 1) \div tp[2])

RECURSIVE SumOver(_, _)
SumOver(s, k) == IF k = 0 THEN 0 ELSE s[k] + SumOver(s, k - 1)

EnergyColumn(d) == [k \in 1..Len(d) |-> Energy(d[k])]
MaxOf(s) == CHOOSE x \in {s[k] : k \in 1..Len(s)} : \A k \in 1..Len(s) : s[k] <= x
MinOf(s) == CHOOSE x \in {s[k] : k \in 1..Len(s)} : \A k \in 1..Len(s) : x <= s[k]

\* n*(n-1) times the sample variance (ddof = 1) that describe() reports
ScaledVariance(s) ==
    Len(s) * SumOver([k \in 1..Len(s) |-> s[k] * s[k]], Len(s))
      - SumOver(s, Len(s)) * SumOver(s, Len(s))

\* stats.loc["std"][0] / abs(stats.loc["max"][0] - stats.loc["min"][0]) < tolerance
\* on numpy floats: std is NaN for a single row and 0/0 is NaN (a warning, no
\* exception); a comparison with NaN is False.  Otherwise both sides are
\* non-negative and the squares are compared.
CutoffReached(t, tol) ==
    LET s == EnergyColumn(t)
        n == Len(s)
    IN  IF n < 2 THEN FALSE
        ELSE LET range == MaxOf(s) - MinOf(s)
             IN  IF range = 0 THEN FALSE
                 ELSE ScaledVariance(s) * tol[2] * tol[2]
                        < tol[1] * tol[1] * range * range * n * (n - 1)

\* the cap test with > for >=
MaxGenerationsReachedStrict(g, mg) == g > mg

\* gen_number >= max_generations
MaxGenerationsReached(g, mg) == g >= mg

\* ------------------------------------------------------------- initial ---
\* The caller's initial population: row i holds angle 0 or 90 at torsion j
\* (90 is on no grid of Deltas), and the rows come in ascending or in
\* descending order of energy: the caller need not have sorted them.  The
\* descending energies are all different, so that the rows of lowest energy
\* are told apart from the others.
InitialAngle(i, j) == IF (i + j) % 2 = 0 THEN 0 ELSE 90

Smaller(a, b) == IF a < b THEN a ELSE b

InitialEnergies(p) ==
    {[i \in 1..p |-> Smaller(i - 1, MaxEnergy)],
     [i \in 1..p |-> p - i]}

InitialPopulations(p, nt) ==
    {[i \in 1..p |-> <<en[i]>> \o [j \in 1..nt |-> InitialAngle(i, j)]] :
        en \in InitialEnergies(p)}

Init ==
    /\ \E shape \in Shapes :
          /\ torsions = [k \in 1..shape[2] |-> k - 1]
          /\ df \in InitialPopulations(shape[1], shape[2])
          /\ structure = [k \in 1..shape[2] |-> None]
    /\ top_percent \in TopPercents
    /\ tolerance \in Tolerances
    /\ max_generations \in 0..MaxGenerations
    /\ store_generations \in BOOLEAN
    /\ mutation_probability \in MutationProbabilities
    /\ delta \in Deltas
    /\ possible_dihedrals = <<>>
    /\ top = <<>>
    /\ top_population = None
    /\ population_size = None
    /\ gen_number = None
    /\ complete = FALSE
    /\ results = <<>>
    /\ individual = None
    /\ parent_0 = None
    /\ parent_1 = None
    /\ dihedrals = <<>>
    /\ index = None
    /\ pc = "start"
    /\ error = "none"
    /\ stored = <<>>
    /\ stored_gens = {}
    /\ calls = 0

\* ------------------------------------------------------------- actions ---
Raise(kind) ==
    /\ pc' = "error"
    /\ error' = kind

\* Setup with population_size taken from the elite instead of from df
SetupEliteSize ==
    /\ pc = "start"
    /\ \/ /\ delta = 0
          /\ Raise("ZeroDivisionError")
          /\ UNCHANGED <<possible_dihedrals, top, top_population,
                         population_size, gen_number, complete>>
       \/ /\ delta # 0
          /\ possible_dihedrals' = Arange(delta)
          /\ top' = select_top_population(df, top_percent)
          /\ top_population' = Len(top')
          /\ population_size' = Len(top')
          /\ gen_number' = 0
          /\ complete' = FALSE
          /\ pc' = "loop"
          /\ UNCHANGED error
    /\ UNCHANGED <<df, args, results, individual, parent_0, parent_1,
                   dihedrals, index, structure, stored, stored_gens, calls>>

\* Setup with the generation counter started at 1
SetupStartsAtOne ==
    /\ pc = "start"
    /\ \/ /\ delta = 0
          /\ Raise("ZeroDivisionError")
          /\ UNCHANGED <<possible_dihedrals, top, top_population,
                         population_size, gen_number, complete>>
       \/ /\ delta # 0
          /\ possible_dihedrals' = Arange(delta)
          /\ top' = select_top_population(df, top_percent)
          /\ top_population' = Len(top')
          /\ population_size' = Len(df)
          /\ gen_number' = 1
          /\ complete' = FALSE
          /\ pc' = "loop"
          /\ UNCHANGED error
    /\ UNCHANGED <<df, args, results, individual, parent_0, parent_1,
                   dihedrals, index, structure, stored, stored_gens, calls>>

\* lines 76-99: the grid, the elite of the initial population, the counters
Setup ==
    /\ pc = "start"
    /\ \/ /\ delta = 0
          /\ Raise("ZeroDivisionError")
          /\ UNCHANGED <<possible_dihedrals, top, top_population,
                         population_size, gen_number, complete>>
       \/ /\ delta # 0
          /\ possible_dihedrals' = Arange(delta)
          /\ top' = select_top_population(df, top_percent)
          /\ top_population' = Len(top')
          /\ population_size' = Len(df)
          /\ gen_number' = 0
          /\ complete' = FALSE
          /\ pc' = "loop"
          /\ UNCHANGED error
    /\ UNCHANGED <<df, args, results, individual, parent_0, parent_1,
                   dihedrals, index, structure, stored, stored_gens, calls>>

\* lines 100-104: the while test; a new generation starts, or df is returned
WhileTest ==
    /\ pc = "loop"
    /\ \/ /\ complete = FALSE
          /\ gen_number' = gen_number + 1
          /\ results' = <<>>
          /\ individual' = 0
          /\ pc' = "individual"
       \/ /\ complete # FALSE
          /\ pc' = "returned"
          /\ UNCHANGED <<gen_number, results, individual>>
    /\ UNCHANGED <<df, args, possible_dihedrals, top, top_population,
                   population_size, complete, parent_0, parent_1, dihedrals,
                   index, error, structure, stored, stored_gens, calls>>

\* random.sample(np.arange(n), 2): an ordered pair of distinct indices,
\* ValueError ("sample larger than population") if n < 2
SamplePairs(n) == {p \in (0..(n - 1)) \X (0..(n - 1)) : p[1] # p[2]}

\* SelectParents with dihedrals = [] left outside the loop over individuals
SelectParentsKeepDihedrals ==
    /\ pc = "individual"
    /\ individual < population_size
    /\ \/ /\ Len(top) < 2
          /\ Raise("ValueError")
          /\ UNCHANGED <<parent_0, parent_1, index>>
       \/ /\ Len(top) >= 2
          /\ \E p \in SamplePairs(Len(top)) :
                /\ parent_0' = p[1]
                /\ parent_1' = p[2]
          /\ index' = 0
          /\ pc' = "torsion"
          /\ UNCHANGED error
    /\ UNCHANGED <<df, args, possible_dihedrals, top, top_population,
                   population_size, gen_number, complete, results, individual,
                   dihedrals, structure, stored, stored_gens, calls>>

\* lines 105-107: the next individual's two parents are drawn
SelectParents ==
    /\ pc = "individual"
    /\ individual < population_size
    /\ \/ /\ Len(top) < 2
          /\ Raise("ValueError")
          /\ UNCHANGED <<parent_0, parent_1, dihedrals, index>>
       \/ /\ Len(top) >= 2
          /\ \E p \in SamplePairs(Len(top)) :
                /\ parent_0' = p[1]
                /\ parent_1' = p[2]
          /\ dihedrals' = <<>>
          /\ index' = 0
          /\ pc' = "torsion"
          /\ UNCHANGED error
    /\ UNCHANGED <<df, args, possible_dihedrals, top, top_population,
                   population_size, gen_number, complete, results, individual,
                   structure, stored, stored_gens, calls>>

\* Crossover reading column index instead of index + 1
CrossoverShifted(r, d, p0, p1, i) ==
    IF 50 > r THEN Iloc(d, p0, i) ELSE Iloc(d, p1, i)

\* lines 113-116: the gene of one of the two parents at this torsion
Crossover(r, d, p0, p1, i) ==
    IF 50 > r THEN Iloc(d, p0, i + 1) ELSE Iloc(d, p1, i + 1)

\* lines 121-127: the dihedral is recorded and set on the ASE object
ApplyDihedral(dihedral) ==
    /\ dihedrals' = Append(dihedrals, dihedral)
    /\ structure' = [structure EXCEPT ![index + 1] = dihedral]
    /\ index' = index + 1
    /\ UNCHANGED <<pc, error>>

\* lines 108-137: one torsion of the individual: mutate or cross over, then
\* set the dihedral
SetTorsion ==
    /\ pc = "torsion"
    /\ index < Len(torsions)
    /\ \E r \in RandomDraws :
          \/ /\ r < mutation_probability
             /\ \/ /\ possible_dihedrals = <<>>
                   /\ Raise("ValueError")
                   /\ UNCHANGED <<dihedrals, structure, index>>
                \/ /\ possible_dihedrals # <<>>
                   /\ \E k \in 1..Len(possible_dihedrals) :
                         ApplyDihedral(possible_dihedrals[k])
          \/ /\ ~(r < mutation_probability)
             /\ \E r2 \in RandomDraws :
                   ApplyDihedral(Crossover(r2, df, parent_0, parent_1, index))
    /\ UNCHANGED <<df, args, possible_dihedrals, top, top_population,
                   population_size, gen_number, complete, results, individual,
                   parent_0, parent_1, stored, stored_gens, calls>>

\* line 140: the row of an individual
ResultRow(e, d) == <<e>> \o d

\* a calculator whose failure is caught and whose individual is skipped
GetEnergySkipsFailure ==
    /\ pc = "torsion"
    /\ index = Len(torsions)
    /\ calls' = calls + 1
    /\ \/ \E e \in Energies : results' = Append(results, ResultRow(e, dihedrals))
       \/ UNCHANGED results
    /\ individual' = individual + 1
    /\ parent_0' = None
    /\ parent_1' = None
    /\ pc' = "individual"
    /\ UNCHANGED <<df, args, possible_dihedrals, top, top_population,
                   population_size, gen_number, complete, dihedrals, index,
                   error, structure, stored, stored_gens>>

\* a steady-state variant: each scored child at once replaces a row of the
\* working population
GetEnergyReplacesInPlace ==
    /\ pc = "torsion"
    /\ index = Len(torsions)
    /\ calls' = calls + 1
    /\ \/ /\ \E e \in Energies : results' = Append(results, ResultRow(e, dihedrals))
          /\ df' = SortValues(results' \o SubSeq(df, Len(results') + 1, Len(df)))
          /\ individual' = individual + 1
          /\ parent_0' = None
          /\ parent_1' = None
          /\ pc' = "individual"
          /\ UNCHANGED error
       \/ /\ Raise("CalculatorError")
          /\ UNCHANGED <<df, results, individual, parent_0, parent_1>>
    /\ UNCHANGED <<args, possible_dihedrals, top, top_population,
                   population_size, gen_number, complete, dihedrals, index,
                   structure, stored, stored_gens>>

\* a calculator called from inside the torsion loop, as soon as one dihedral
\* is set
GetEnergyInsideTorsionLoop ==
    /\ pc = "torsion"
    /\ index >= 1
    /\ calls' = calls + 1
    /\ \/ /\ \E e \in Energies : results' = Append(results, ResultRow(e, dihedrals))
          /\ individual' = individual + 1
          /\ parent_0' = None
          /\ parent_1' = None
          /\ pc' = "individual"
          /\ UNCHANGED error
       \/ /\ Raise("CalculatorError")
          /\ UNCHANGED <<results, individual, parent_0, parent_1>>
    /\ UNCHANGED <<df, args, possible_dihedrals, top, top_population,
                   population_size, gen_number, complete, dihedrals, index,
                   structure, stored, stored_gens>>

\* lines 139-140: the calculator scores the structure; a failing calculator
\* raises and nothing catches it.  parent_0 and parent_1 are reassigned
\* (line 106) before they are read again: they are cleared here.
GetEnergy ==
    /\ pc = "torsion"
    /\ index = Len(torsions)
    /\ calls' = calls + 1
    /\ \/ /\ \E e \in Energies : results' = Append(results, ResultRow(e, dihedrals))
          /\ individual' = individual + 1
          /\ parent_0' = None
          /\ parent_1' = None
          /\ pc' = "individual"
          /\ UNCHANGED error
       \/ /\ Raise("CalculatorError")
          /\ UNCHANGED <<results, individual, parent_0, parent_1>>
    /\ UNCHANGED <<df, args, possible_dihedrals, top, top_population,
                   population_size, gen_number, complete, dihedrals, index,
                   structure, stored, stored_gens>>

\* lines 142-150: the generation's DataFrame, sorted by energy
Assemble ==
    /\ pc = "individual"
    /\ individual = population_size
    /\ df' = SortValues(results)
    /\ pc' = "store"
    /\ UNCHANGED <<args, possible_dihedrals, top, top_population,
                   population_size, gen_number, complete, results, individual,
                   parent_0, parent_1, dihedrals, index, error, structure,
                   stored, stored_gens, calls>>

\* StoreGeneration as df = df.to_csv(f) would have it: df is rebound
StoreGenerationRebinds ==
    /\ pc = "store"
    /\ IF store_generations = TRUE
       THEN /\ stored' = <<gen_number, df>>
            /\ stored_gens' = stored_gens \cup {gen_number}
            /\ df' = <<>>
       ELSE UNCHANGED <<stored, stored_gens, df>>
    /\ pc' = "check"
    /\ UNCHANGED <<args, possible_dihedrals, top, top_population,
                   population_size, gen_number, complete, results, individual,
                   parent_0, parent_1, dihedrals, index, error, structure,
                   calls>>

\* lines 152-169: the generation is written to <kind>_ga_generation_<n>.csv
StoreGeneration ==
    /\ pc = "store"
    /\ IF store_generations = TRUE
       THEN /\ stored' = <<gen_number, df>>
            /\ stored_gens' = stored_gens \cup {gen_number}
       ELSE UNCHANGED <<stored, stored_gens>>
    /\ pc' = "check"
    /\ UNCHANGED <<df, args, possible_dihedrals, top, top_population,
                   population_size, gen_number, complete, results, individual,
                   parent_0, parent_1, dihedrals, index, error, structure,
                   calls>>

\* CheckComplete with the second test assigning complete its own outcome
CheckCompleteOverwrites ==
    /\ pc = "check"
    /\ top' = HeadRows(df, top_population)
    /\ complete' = CutoffReached(top', tolerance)
    /\ pc' = "loop"
    /\ UNCHANGED <<df, args, possible_dihedrals, top_population,
                   population_size, gen_number, results, individual,
                   parent_0, parent_1, dihedrals, index, error, structure,
                   stored, stored_gens, calls>>

\* lines 171-180: the elite of the new generation and the two stop tests
CheckComplete ==
    /\ pc = "check"
    /\ top' = HeadRows(df, top_population)
    /\ complete' = (\/ complete
                    \/ MaxGenerationsReached(gen_number, max_generations)
                    \/ CutoffReached(top', tolerance))
    /\ pc' = "loop"
    /\ UNCHANGED <<df, args, possible_dihedrals, top_population,
                   population_size, gen_number, results, individual,
                   parent_0, parent_1, dihedrals, index, error, structure,
                   stored, stored_gens, calls>>

Next ==
    \/ Setup
    \/ WhileTest
    \/ SelectParents
    \/ SetTorsion
    \/ GetEnergy
    \/ Assemble
    \/ StoreGeneration
    \/ CheckComplete

Spec == Init /\ [][Next]_vars

\* ------------------------------------------------------- claim helpers ---
IsSortedByEnergy(d) ==
    \A i \in 1..(Len(d) - 1) : Energy(d[i]) <= Energy(d[i + 1])

CountRow(d, row) == Cardinality({i \in 1..Len(d) : d[i] = row})

SameRows(a, b) ==
    /\ Len(a) = Len(b)
    /\ \A i \in 1..Len(a) : CountRow(a, a[i]) = CountRow(b, a[i])

\* df holds the population assembled in generation gen_number
GenerationAssembled ==
    /\ gen_number >= 1
    /\ pc \in {"store", "check", "loop", "returned"}

\* the elite slice of the assembled generation
EliteSlice == SubSeq(df, 1, top_population)

AllEqualEnergies(t) ==
    \A i, j \in 1..Len(t) : Energy(t[i]) = Energy(t[j])

\* std / |max - min| < tol, from the deviations of the energies from their
\* mean: with S the sum of the n energies, n^2 (n-1) std^2 is the sum of the
\* (n x - S)^2.  Not below the tolerance when the ratio is undefined.
EliteRatioBelow(t, tol) ==
    LET n == Len(t)
        S == SumOver(EnergyColumn(t), n)
        dev == [i \in 1..n |-> (n * Energy(t[i]) - S) * (n * Energy(t[i]) - S)]
        spread == {Energy(t[i]) - Energy(t[j]) : i, j \in 1..n}
        range == CHOOSE x \in spread : \A y \in spread : y <= x
    IN  /\ n >= 2
        /\ range > 0
        /\ SumOver(dev, n) * tol[2] * tol[2]
             < tol[1] * tol[1] * range * range * n * n * (n - 1)

\* the angle grid {0, delta, 2*delta, ... < 360}
AngleGrid == {a \in 0..359 : delta > 0 /\ a % delta = 0}

\* ---------------------------------------------------------------- C1 -----
\* C1: for max_generations >= 1 the generation counter never exceeds
\* max_generations; a generation g >= max_generations ends with complete set;
\* a run with max_generations = 1 returns after exactly one generation,
\* whatever the tolerance; and the run never stops short of returning or
\* raising.
C1_GenerationCap ==
    /\ (pc # "start" /\ max_generations >= 1) => gen_number <= max_generations
    /\ (pc = "loop" /\ gen_number >= 1 /\ gen_number >= max_generations)
          => complete
    /\ (pc = "returned" /\ max_generations = 1) => gen_number = 1
    /\ pc \in {"returned", "error"} \/ ENABLED Next

\* a run with max_generations = 1 has returned after one generation that the
\* tolerance test alone would not have stopped
C1_Witness ==
    /\ pc = "returned"
    /\ max_generations = 1
    /\ gen_number = 1
    /\ ~EliteRatioBelow(EliteSlice, tolerance)

\* ---------------------------------------------------------------- C2 -----
\* C2: when all energies of a generation's elite slice are equal, the run
\* converges on that generation: complete is set when the check ends.
C2_ZeroSpreadConverges ==
    (pc = "loop" /\ gen_number >= 1 /\ AllEqualEnergies(EliteSlice))
        => complete

\* ---------------------------------------------------------------- C3 -----
\* C3: the population assembled in a generation holds the rows of results
\* sorted ascending by energy, the elite slice is taken from that sorted
\* population, and the returned population is sorted with the minimum energy
\* of the final generation first.
C3_SortedBeforeElite ==
    /\ GenerationAssembled =>
          /\ IsSortedByEnergy(df)
          /\ SameRows(df, results)
    /\ (GenerationAssembled /\ pc \in {"loop", "returned"}) =>
          top = EliteSlice
    /\ pc = "returned" =>
          \A i \in 1..Len(results) : Energy(df[1]) <= Energy(results[i])

\* a returned population whose children were evaluated in descending order
C3_Witness ==
    /\ pc = "returned"
    /\ Len(results) >= 2
    /\ Energy(results[1]) > Energy(results[Len(results)])
    /\ Energy(df[1]) < Energy(df[Len(df)])

\* ---------------------------------------------------------------- C4 -----
\* C4: the check of generation g sets complete exactly when g >=
\* max_generations or the elite ratio is below tolerance; the loop starts
\* generation g+1 exactly when complete is not set, and returns otherwise;
\* once complete is set no generation is started and no energy is evaluated.
C4_StopIffEitherCondition ==
    [][ /\ pc = "check" =>
              /\ pc' = "loop"
              /\ complete' <=> (\/ gen_number >= max_generations
                                \/ EliteRatioBelow(EliteSlice, tolerance))
        /\ (pc = "loop" /\ ~complete) =>
              (pc' = "individual" /\ gen_number' = gen_number + 1)
        /\ (pc = "loop" /\ complete) => pc' = "returned"
        /\ complete =>
              (complete' /\ gen_number' = gen_number /\ calls' = calls)
      ]_vars

\* a run that went on after generation 1 and stopped at generation 2 with
\* both conditions holding
C4_Witness ==
    /\ pc = "returned"
    /\ gen_number = 2
    /\ gen_number >= max_generations
    /\ EliteRatioBelow(EliteSlice, tolerance)

\* ---------------------------------------------------------------- C5 -----
\* C5: with an elite slice of one individual (and an otherwise valid
\* configuration) no generation executes: the generation counter stays 0 and
\* no child is bred or evaluated.
C5_EliteOfOneFailsBeforeAnyGeneration ==
    (pc # "start" /\ top_population = 1 /\ delta > 0 /\ max_generations >= 1) =>
        /\ gen_number = 0
        /\ calls = 0
        /\ results = <<>>
        /\ dihedrals = <<>>

\* ---------------------------------------------------------------- C6 -----
\* C6: with delta <= 0 or max_generations < 1 no child is bred, the
\* calculator is never called and no population is returned.
C6_InvalidConfigurationRejected ==
    (delta <= 0 \/ max_generations < 1) =>
        /\ dihedrals = <<>>
        /\ results = <<>>
        /\ calls = 0
        /\ pc # "returned"

\* ---------------------------------------------------------------- C7 -----
\* C7: every gene given to a child is a value of the angle grid or the gene of
\* one of the child's two parents at the same torsion, and the row stored for
\* the child holds exactly those genes after its energy.
C7_GeneFromGridOrParent ==
    [][ /\ (pc = "torsion" /\ dihedrals' # dihedrals) =>
              /\ Len(dihedrals') = Len(dihedrals) + 1
              /\ SubSeq(dihedrals', 1, Len(dihedrals)) = dihedrals
              /\ \/ dihedrals'[Len(dihedrals')] \in AngleGrid
                 \/ dihedrals'[Len(dihedrals')] = df[parent_0 + 1][index + 2]
                 \/ dihedrals'[Len(dihedrals')] = df[parent_1 + 1][index + 2]
        /\ results' # results /\ results' # <<>> =>
              /\ Len(results') = Len(results) + 1
              /\ Tail(results'[Len(results')]) = dihedrals
      ]_vars

\* a child whose first gene is a grid value neither parent holds there and
\* whose second gene is an off-grid value copied from a parent
C7_Witness ==
    /\ pc = "torsion"
    /\ index = 2
    /\ dihedrals = <<0, 90>>
    /\ df[parent_0 + 1][2] = 90
    /\ df[parent_1 + 1][2] = 90
    /\ 90 \in {df[parent_0 + 1][3], df[parent_1 + 1][3]}

\* ---------------------------------------------------------------- C8 -----
\* C8: every row of results and of an assembled population holds an energy and
\* exactly len(torsions) angles; a child under construction never holds more.
C8_GenomeLength ==
    /\ \A i \in 1..Len(results) : Len(results[i]) = Len(torsions) + 1
    /\ GenerationAssembled =>
          /\ Len(df) = population_size
          /\ \A i \in 1..Len(df) : Len(df[i]) = Len(torsions) + 1
    /\ Len(dihedrals) <= Len(torsions)

\* a returned population of two-torsion individuals
C8_Witness ==
    /\ pc = "returned"
    /\ Len(torsions) = 2
    /\ Len(df) = 2
    /\ \A i \in 1..Len(df) : Len(df[i]) = 3

\* ---------------------------------------------------------------- C10 ----
\* C10: the store step changes nothing but the stored file and the position:
\* population, elite, counters and results are as they are without storing,
\* the convergence check comes next, and the file holds the generation's
\* sorted population.
C10_StorePureSideEffect ==
    [][ pc = "store" =>
          /\ UNCHANGED <<df, top, top_population, population_size, gen_number,
                         complete, results, individual, parent_0, parent_1,
                         dihedrals, index, error, structure, calls, args,
                         possible_dihedrals>>
          /\ pc' = "check"
          /\ store_generations = TRUE =>
                /\ stored' = <<gen_number, df>>
                /\ IsSortedByEnergy(df)
                /\ SameRows(df, results)
          /\ store_generations # TRUE => UNCHANGED <<stored, stored_gens>>
      ]_vars

\* the second generation, stored, is about to be checked
C10_Witness ==
    /\ pc = "check"
    /\ store_generations = TRUE
    /\ gen_number = 2
    /\ stored = <<2, df>>
    /\ stored_gens = {1, 2}
    /\ Energy(results[1]) > Energy(results[2])

\* C11: a calculator failure while a child is scored is neither retried nor
\* skipped: the step that raises it leaves results, df and the individual
\* counter as they were and ends the run in the error state, from which no
\* step is taken and nothing is returned.  A returned population holds exactly
\* the population_size scored rows of the last generation, one calculator call
\* each, and the run that returns it raised nothing.
C11_EvaluatorFailureAborts ==
    [][ /\ (error' = "CalculatorError" /\ error = "none") =>
             /\ pc = "torsion" /\ index = Len(torsions)
             /\ pc' = "error"
             /\ calls' = calls + 1
             /\ UNCHANGED <<df, results, individual, gen_number>>
        /\ pc = "error" => UNCHANGED vars
        /\ pc' = "returned" =>
             /\ error' = "none"
             /\ Len(df') = population_size'
             /\ SameRows(df', results')
             /\ \A i \in 1..Len(df') : Energy(df'[i]) \in Energies
             /\ calls' = gen_number' * population_size'
      ]_vars

\* the calculator fails on the second child of the second generation
C11_Witness ==
    /\ pc = "error"
    /\ error = "CalculatorError"
    /\ gen_number = 2
    /\ Len(results) = 1
    /\ calls = population_size + 2

\* ---------------------------------------------------------------- C12 ----
\* every angle of every row of d is a value of the grid
AnglesOnGrid(d) ==
    \A i \in 1..Len(d) : \A j \in 2..Len(d[i]) : d[i][j] \in AngleGrid

\* the population a pure-mutation run returns: population_size rows, angles
\* on the grid, ascending energies
PureMutationPopulation ==
    /\ Len(df) = population_size
    /\ \A i \in 1..Len(df) : Len(df[i]) = 1 + Len(torsions)
    /\ AnglesOnGrid(df)
    /\ IsSortedByEnergy(df)

\* C12 as stated: with mutation_probability = 1.0 and max_generations = G
\* (G >= 1) a run that returns has stopped at generation G, with
\* population_size rows, every angle on the grid, sorted by energy.
C12_PureMutationStopsAtCap ==
    (pc = "returned" /\ mutation_probability = 100 /\ max_generations >= 1) =>
        /\ gen_number = max_generations
        /\ PureMutationPopulation

\* C12, amended: with mutation_probability = 1.0 and max_generations = G
\* (G >= 1) a run that returns has stopped at generation G, or at an earlier
\* generation whose elite has a spread ratio below the tolerance; it returns
\* population_size rows, every angle on the grid whatever the initial angles
\* were, sorted ascending by energy.
C12_PureMutationStopsAtCapOrCutoff ==
    (pc = "returned" /\ mutation_probability = 100 /\ max_generations >= 1) =>
        /\ gen_number <= max_generations
        /\ gen_number < max_generations => EliteRatioBelow(EliteSlice, tolerance)
        /\ PureMutationPopulation

\* a pure-mutation run returns at the cap, no cutoff having fired
C12_Witness ==
    /\ pc = "returned"
    /\ mutation_probability = 100
    /\ max_generations = 2
    /\ gen_number = 2
    /\ ~EliteRatioBelow(EliteSlice, tolerance)
    /\ Len(df) = 3
    /\ AnglesOnGrid(df)

\* ---------------------------------------------------------------- C13 ----
\* row r (0-based) of d is one of the n rows of lowest energy of d, however
\* rows of equal energy are ranked
AmongLowest(d, r, n) ==
    /\ r \in 0..(Len(d) - 1)
    /\ Cardinality({k \in 1..Len(d) : Energy(d[k]) < Energy(d[r + 1])}) < n

\* C13: in every generation, the first included, the two parents of a child
\* are two different rows of the population being bred from (df), both among
\* its top_population rows of lowest energy.
C13_ParentsDistinctElite ==
    pc = "torsion" =>
        /\ parent_0 # parent_1
        /\ AmongLowest(df, parent_0, top_population)
        /\ AmongLowest(df, parent_1, top_population)

\* ---------------------------------------------------------------- C14 ----
\* a child of the current generation is being bred or is about to be
Breeding == pc \in {"individual", "torsion"}

\* C14: generations are strictly sequential.  The working population df is
\* replaced in one step only, when all population_size children of the
\* generation have been scored, by the sorted frame of exactly these
\* children; while children are bred df does not change, and from the second
\* generation on it is the complete, sorted population of the previous
\* generation (the one written to disk when generations are stored).
C14_GenerationsSequential ==
    [][ /\ df' # df =>
             /\ pc = "individual" /\ pc' = "store"
             /\ individual = population_size
             /\ Len(results) = population_size
             /\ calls = gen_number * population_size
             /\ SameRows(df', results)
             /\ IsSortedByEnergy(df')
             /\ UNCHANGED <<results, gen_number>>
        /\ (Breeding /\ gen_number >= 2) =>
             /\ Len(df) = population_size
             /\ IsSortedByEnergy(df)
             /\ store_generations = TRUE => stored = <<gen_number - 1, df>>
        /\ (Breeding /\ Breeding') => df' = df
      ]_vars

\* the second child of generation 2 is bred from generation 1 while the first
\* child of generation 2, already scored, waits in results
C14_Witness ==
    /\ pc = "torsion"
    /\ gen_number = 2
    /\ Len(results) = 1
    /\ store_generations = TRUE
    /\ stored = <<1, df>>
    /\ results[1] # df[1]

\* ---------------------------------------------------------------- C15 ----
\* C15: population_size is the number of rows of the initial population and
\* never changes; every generation breeds exactly population_size children
\* with exactly population_size calculator calls, so every assembled
\* population, the returned one included, has population_size rows.
C15_PopulationSizeConstant ==
    [][ /\ pc = "start" => (pc' = "loop" => population_size' = Len(df))
        /\ pc # "start" => population_size' = population_size
        /\ pc' = "store" =>
             /\ Len(results') = population_size'
             /\ Len(df') = population_size'
             /\ Len(df) = population_size'
             /\ calls' = gen_number' * population_size'
        /\ (pc' \in {"check", "loop", "returned"} /\ gen_number' >= 1) =>
             /\ Len(df') = population_size'
             /\ Len(results') = population_size'
             /\ calls' = gen_number' * population_size'
        /\ pc' \in {"individual", "torsion"} =>
             /\ Len(results') = individual'
             /\ individual' <= population_size'
             /\ calls' = (gen_number' - 1) * population_size' + individual'
      ]_vars

\* the second generation of a population of 3 is assembled after 6 calls
C15_Witness ==
    /\ pc = "store"
    /\ gen_number = 2
    /\ population_size = 3
    /\ Len(df) = 3
    /\ calls = 6

\* ---------------------------------------------------------------- C16 ----
\* ceil(top_percent * population_size): the least n with n >= top_percent * P
EliteSize ==
    CHOOSE n \in 0..population_size :
        /\ n * top_percent[2] >= top_percent[1] * population_size
        /\ \A m \in 0..(n - 1) :
               m * top_percent[2] < top_percent[1] * population_size

\* the rows the parents of a child are drawn from
BreedingPool == SubSeq(df, 1, Len(top))

\* C16: in every generation the rows the parents are drawn from, and the rows
\* the convergence statistics are taken of, are the first
\* ceil(top_percent * population_size) rows of the population sorted by
\* energy; that number is the same in every generation.
C16_EliteIsHeadOfSorted ==
    /\ pc \in {"loop", "individual", "torsion", "store", "check", "returned"} =>
         /\ Len(top) = EliteSize
         /\ top_population = EliteSize
    /\ Breeding => BreedingPool = HeadRows(SortValues(df), EliteSize)
    /\ (pc \in {"loop", "returned"} /\ gen_number >= 1) =>
         top = HeadRows(SortValues(df), EliteSize)

\* C16 from the second generation on
C16_FromSecondGeneration ==
    /\ pc \in {"loop", "individual", "torsion", "store", "check", "returned"} =>
         /\ Len(top) = EliteSize
         /\ top_population = EliteSize
    /\ (Breeding /\ gen_number >= 2) =>
         BreedingPool = HeadRows(SortValues(df), EliteSize)
    /\ (pc \in {"loop", "returned"} /\ gen_number >= 1) =>
         top = HeadRows(SortValues(df), EliteSize)

\* ---------------------------------------------------------------- C17 ----
\* C17: a child is scored once, and only when all Len(torsions) angles of its
\* vector are set on the structure, in torsion order.  The calculator is
\* called only with the whole vector applied; an angle is set only for the
\* next torsion of the child being built, whose energy has not been read;
\* and a successful call stores one row, the energy followed by that vector,
\* before the first angle of the next child is set.
C17_ScoredOnceAfterAllAngles ==
    [][ /\ calls' # calls =>
             /\ calls' = calls + 1
             /\ pc = "torsion"
             /\ index = Len(torsions)
             /\ Len(dihedrals) = Len(torsions)
             /\ structure = dihedrals
             /\ UNCHANGED <<structure, dihedrals>>
             /\ \/ pc' = "error" /\ results' = results
                \/ /\ pc' = "individual"
                   /\ individual' = individual + 1
                   /\ Len(results') = Len(results) + 1
                   /\ SubSeq(results', 1, Len(results)) = results
                   /\ Tail(results'[Len(results')]) = structure
        /\ structure' # structure =>
             /\ pc = "torsion" /\ pc' = "torsion"
             /\ index < Len(torsions)
             /\ index = Len(dihedrals)
             /\ index' = index + 1
             /\ dihedrals' = Append(dihedrals, structure'[index + 1])
             /\ \A k \in 1..Len(torsions) :
                    k # index + 1 => structure'[k] = structure[k]
             /\ Len(results) = individual
             /\ calls' = calls
        /\ pc' = "torsion" =>
             calls' = (gen_number' - 1) * population_size' + Len(results')
      ]_vars

\* the second child of a 2-torsion run has its first angle set: the first
\* child was scored once, the second not yet
C17_Witness ==
    /\ pc = "torsion"
    /\ Len(torsions) = 2
    /\ index = 1
    /\ individual = 1
    /\ Len(results) = 1
    /\ calls = 1
    /\ structure[1] = dihedrals[1]

\* ---------------------------------------------------------------- C18 ----
\* C18: the generation counter is set to 0 before the loop and changes only
\* by +1, in the step that starts a generation, before any child of that
\* generation is bred or scored.  Generations are thus numbered 1, 2, 3, ...
\* without gap or repeat (the numbers written when generations are stored are
\* exactly 1..gen_number), and at return the counter is the number of
\* generations executed (calls / population_size of them).
C18_GenerationCounter ==
    [][ /\ (pc = "start" /\ pc' = "loop") => gen_number' = 0
        /\ (pc # "start" /\ gen_number' # gen_number) =>
             /\ gen_number' = gen_number + 1
             /\ pc = "loop" /\ pc' = "individual"
             /\ complete = FALSE
             /\ results' = <<>> /\ individual' = 0
             /\ calls' = calls
             /\ calls = gen_number * population_size
        /\ pc' = "individual" =>
             (gen_number' # gen_number <=> pc = "loop")
        /\ (pc' \in {"loop", "returned"} /\ store_generations = TRUE) =>
             stored_gens' = 1..gen_number'
        /\ pc' = "returned" =>
             /\ gen_number' >= 1
             /\ calls' = gen_number' * population_size'
      ]_vars

\* a run returns after two generations, both written, 2 * population_size
\* children scored
C18_Witness ==
    /\ pc = "returned"
    /\ gen_number = 2
    /\ store_generations = TRUE
    /\ stored_gens = {1, 2}
    /\ calls = 2 * population_size

=============================================================================
